---- MODULE Spec2Model ----
(***************************************************************************)
(* StepTracker (src/app.js): the walk session (start / stop, elapsed-time  *)
(* timer, step feed), the step detector and the walk store, as a state     *)
(* machine.  One action per event handler; every handler runs to           *)
(* completion, and an `await` splits a handler into two actions.           *)
(*                                                                         *)
(* Conventions                                                             *)
(*  - Time is in milliseconds.  clock is Date.now(), taken as monotone.    *)
(*    It counts from the midnight before the page was loaded, and no run   *)
(*    lasts into the next day.                                             *)
(*  - A date, as a Date object or as the string toISOString() writes, is   *)
(*    the record [day, ms] of its day number and its milliseconds within   *)
(*    the day: 30 days of milliseconds exceed the 32-bit integers of TLC.  *)
(*  - Decimals with one fractional digit (accelerations, stepThreshold,    *)
(*    stepsPerMinute) are fixed-point integers counting tenths.            *)
(*  - null / undefined handles (timerInterval, motionHandler,              *)
(*    simulationInterval) are 0: the code only tests them for truthiness,  *)
(*    and real handles are positive.  startTime = null is 0 as well, which *)
(*    is the value JavaScript arithmetic gives null.                       *)
(*  - setInterval follows the HTML timer model: a callback runs no sooner  *)
(*    than its interval after the timer was created or last ran, and may   *)
(*    run arbitrarily later.                                               *)
(*  - Of the DOM the control button's text, the history list (each item    *)
(*    with its data-index, which the swipe handler reads back) and the     *)
(*    history statistics are kept; the session's displays, the summary     *)
(*    modal and the chart are written by the handlers but never read back. *)
(*  - The service worker (src/sw.js) is a second state machine over the    *)
(*    cache and its fetch events; the page's handlers leave it alone.      *)
(***************************************************************************)
EXTENDS Integers, Sequences, FiniteSets, TLC

VARIABLES
    pc,                 \* "boot" before new StepTracker(), then "running" | "crashed"
    clock,              \* Date.now()
    hasDeviceMotion,    \* window.DeviceMotionEvent is defined
    hasRequestPermission, \* DeviceMotionEvent.requestPermission is a function
    storage,            \* localStorage['stepTrackerWalks']: [present, text]
    isTracking, startTime, elapsedTime, stepCount,
    timerInterval, motionHandler, simulationInterval,
    lastStepTime, accelerationBuffer,
    walks,
    timers,             \* live setInterval(updateTimer) handles -> ms before it may run
    listeners,          \* handlers registered for 'devicemotion'
    simulations,        \* live setInterval(simulation) handles -> ms before it may run
    handles,            \* number of handles handed out so far
    pending,            \* startTracking calls suspended at the await
    buttonText,         \* controlButton .button-text
    currentPeriod,      \* "week" | "month" | "all"
    historyItems,       \* historyList: the rendered items, [walk, index]
    stats,              \* totalWalks, chartTotal, avgSteps, avgPace as displayed
    last,               \* history: the most recent operation (construction, click,
                        \* settled permission request, deleteWalk call), its input
                        \* and the exception that left it ("none" if it returned)
    prevStepAt,         \* history: clock of the latest registerStep, 0 if none
    swState,            \* service worker: "parsed" | "installed" | "activated"
    cacheNames,         \* caches.keys()
    cache,              \* the cache CACHE_NAME: URL -> response, Missing if none
    puts,               \* cache.put calls of the fetch handler not yet settled
    answer              \* the latest fetch event and what respondWith received

pageVars == <<pc, clock, hasDeviceMotion, hasRequestPermission, storage,
              isTracking, startTime, elapsedTime, stepCount,
              timerInterval, motionHandler, simulationInterval,
              lastStepTime, accelerationBuffer, walks,
              timers, listeners, simulations, handles, pending,
              buttonText, currentPeriod, historyItems, stats, last, prevStepAt>>

workerVars == <<swState, cacheNames, cache, puts, answer>>

vars == <<pageVars, workerVars>>

viewVars == <<currentPeriod, historyItems, stats>>

sessionVars == <<isTracking, startTime, elapsedTime, stepCount, accelerationBuffer,
                 lastStepTime, timerInterval, motionHandler, simulationInterval>>

----------------------------------------------------------------------------
(* Program constants *)

stepThreshold == 12
minStepInterval == 250
bufferSize == 4
Gravity == 98
TimerPeriod == 100
SimulationPeriod == 550
MinWalkDuration == 1000

(* Bounds of the model *)

Today == 40
T0 == 1000
Horizon == 1500
MaxHandles == 4
MaxMagnitude == 200
DetectorHorizon == 750

Deltas == {250, 1100}

----------------------------------------------------------------------------
(* JSON.stringify / JSON.parse of the walks array.  The text is a sequence *)
(* of tokens: punctuation is negative, a value is a non-negative number.   *)

Tok == [lbracket |-> -1, rbracket |-> -2, lbrace |-> -3, rbrace |-> -4]

StringifyWalk(w) ==
    <<Tok.lbrace, w.date.day, w.date.ms, w.duration, w.steps, w.stepsPerMinute,
      Tok.rbrace>>

RECURSIVE StringifyItems(_)
StringifyItems(ws) ==
    IF ws = <<>> THEN <<>>
    ELSE StringifyWalk(Head(ws)) \o StringifyItems(Tail(ws))

Stringify(ws) == <<Tok.lbracket>> \o StringifyItems(ws) \o <<Tok.rbracket>>

WellFormedItem(t) ==
    /\ t[1] = Tok.lbrace
    /\ t[7] = Tok.rbrace
    /\ \A i \in 2..6 : t[i] >= 0

RECURSIVE WellFormedItems(_)
WellFormedItems(t) ==
    \/ t = <<>>
    \/ /\ Len(t) >= 7
       /\ WellFormedItem(SubSeq(t, 1, 7))
       /\ WellFormedItems(SubSeq(t, 8, Len(t)))

WellFormed(text) ==
    /\ Len(text) >= 2
    /\ text[1] = Tok.lbracket
    /\ text[Len(text)] = Tok.rbracket
    /\ WellFormedItems(SubSeq(text, 2, Len(text) - 1))

RECURSIVE ParseItems(_)
ParseItems(t) ==
    IF t = <<>> THEN <<>>
    ELSE <<[date |-> [day |-> t[2], ms |-> t[3]], duration |-> t[4], steps |-> t[5],
            stepsPerMinute |-> t[6]]>>
         \o ParseItems(SubSeq(t, 8, Len(t)))

\* JSON.parse: [ok |-> FALSE] stands for the SyntaxError it throws.
Parse(text) ==
    IF WellFormed(text)
    THEN [ok |-> TRUE, value |-> ParseItems(SubSeq(text, 2, Len(text) - 1))]
    ELSE [ok |-> FALSE, value |-> <<>>]

----------------------------------------------------------------------------
(* Number.prototype.toFixed(1) followed by parseFloat, on steps /          *)
(* (duration / 60000): the nearest tenth, ties upwards.  Result in tenths. *)

\* mutant: truncates instead of rounding
Truncate1(num, den) == (10 * num) \div den

ToFixed1(num, den) == (2 * 10 * num + den) \div (2 * den)

\* mutant: the divisor is clamped to 1 ms instead of the result being 0
StepsPerMinuteClamped(steps, duration) ==
    ToFixed1(steps * 60000, IF duration > 0 THEN duration ELSE 1)

\* stopTracking, line 188: the final pace
StepsPerMinute(steps, duration) ==
    IF duration > 0 THEN ToFixed1(steps * 60000, duration) ELSE 0

\* updateTimer, lines 231-233: the live readout stepsPerMinuteEl
LivePace(steps, elapsed) ==
    IF elapsed > 0 THEN ToFixed1(steps * 60000, elapsed) ELSE 0

(* Array.prototype.splice(index, 1).  index is [nan, n]: parseInt gives    *)
(* NaN or an integer.  ToIntegerOrInfinity(NaN) = 0; a negative start      *)
(* counts from the end.                                                    *)

SpliceStart(index, len) ==
    LET rel == IF index.nan THEN 0 ELSE index.n
    IN  IF rel < 0 THEN (IF len + rel > 0 THEN len + rel ELSE 0)
        ELSE (IF rel < len THEN rel ELSE len)

\* mutant: splice(index) without the delete count removes the whole tail
SpliceTail(ws, index) == SubSeq(ws, 1, SpliceStart(index, Len(ws)))

Splice1(ws, index) ==
    LET len    == Len(ws)
        start  == SpliceStart(index, len)
        count  == IF len - start >= 1 THEN 1 ELSE 0
    IN  SubSeq(ws, 1, start) \o SubSeq(ws, start + count + 1, len)

----------------------------------------------------------------------------
(* Inputs *)

\* parseInt(item.dataset.index): NaN when the attribute is missing
Indices == {[nan |-> TRUE, n |-> 0]} \cup {[nan |-> FALSE, n |-> i] : i \in -1..2}

\* devicemotion events: accelerationIncludingGravity missing, and a device in
\* motion (magnitude 13.0)
Samples == {[has |-> FALSE, x |-> 0, y |-> 0, z |-> 0],
            [has |-> TRUE,  x |-> 30, y |-> 40, z |-> 120]}

\* devicemotion events for the detector: no acceleration, a device at rest
\* (9.8), one whose deviation is exactly stepThreshold (11.0), one in motion
\* (13.0)
DetectorSamples ==
    {[has |-> FALSE, x |-> 0, y |-> 0, z |-> 0],
     [has |-> TRUE,  x |-> 0, y |-> 0, z |-> 98],
     [has |-> TRUE,  x |-> 0, y |-> 0, z |-> 110],
     [has |-> TRUE,  x |-> 30, y |-> 40, z |-> 120]}

Walk1 == [date |-> [day |-> Today - 1, ms |-> 100], duration |-> 2000, steps |-> 3,
          stepsPerMinute |-> 900]
Walk2 == [date |-> [day |-> Today - 1, ms |-> 200], duration |-> 60000, steps |-> 120,
          stepsPerMinute |-> 1200]

\* what localStorage may hold when the page loads: nothing, a truncated text,
\* a text an earlier run of saveWalk wrote
InitialStorage ==
    {[present |-> FALSE, text |-> <<>>],
     [present |-> TRUE,  text |-> <<Tok.lbracket, Tok.lbrace, Today - 1, 100>>],
     [present |-> TRUE,  text |-> Stringify(<<Walk1>>)]}

\* records of earlier days, by their age when the page loads: 31 days, exactly
\* 30 days, 7 days and 1 ms, exactly 7 days, 1 hour
Old == [date |-> [day |-> Today - 31, ms |-> T0], duration |-> 2000, steps |-> 3,
        stepsPerMinute |-> 900]
MonthOld == [date |-> [day |-> Today - 30, ms |-> T0], duration |-> 60000,
             steps |-> 120, stepsPerMinute |-> 1200]
OverWeek == [date |-> [day |-> Today - 7, ms |-> T0 - 1], duration |-> 59940,
             steps |-> 100, stepsPerMinute |-> 1001]
WeekOld == [date |-> [day |-> Today - 7, ms |-> T0], duration |-> 2000, steps |-> 3,
            stepsPerMinute |-> 900]
HourOld == [date |-> [day |-> Today - 1, ms |-> 23 * 60 * 60 * 1000 + T0],
            duration |-> 60000, steps |-> 120, stepsPerMinute |-> 1200]

\* two records carrying one date
Twin1 == [date |-> [day |-> Today - 2, ms |-> 500], duration |-> 6000, steps |-> 10,
          stepsPerMinute |-> 1000]
Twin2 == [date |-> [day |-> Today - 2, ms |-> 500], duration |-> 6000, steps |-> 11,
          stepsPerMinute |-> 1100]

HistoryStorage ==
    {[present |-> FALSE, text |-> <<>>],
     [present |-> TRUE,  text |-> Stringify(<<OverWeek, WeekOld, HourOld>>)],
     [present |-> TRUE,  text |-> Stringify(<<Old, MonthOld, HourOld>>)],
     [present |-> TRUE,  text |-> Stringify(<<Twin1, Twin2, HourOld>>)]}

StoreStorage ==
    {[present |-> FALSE, text |-> <<>>],
     [present |-> TRUE,  text |-> Stringify(<<Walk1, Walk2>>)]}

----------------------------------------------------------------------------
(* Helpers on the handle tables *)

Without(f, h) == [k \in DOMAIN f \ {h} |-> f[k]]

Sqrt(n) == CHOOSE r \in 0..MaxMagnitude : r * r <= n /\ (r + 1) * (r + 1) > n

Abs(n) == IF n < 0 THEN -n ELSE n

RECURSIVE Sum(_)
Sum(s) == IF s = <<>> THEN 0 ELSE Head(s) + Sum(Tail(s))

Op(name, error) == [op |-> name, nan |-> FALSE, n |-> 0, len |-> 0, thrown |-> error]

----------------------------------------------------------------------------
(* History view: getFilteredWalks, renderHistory, updateHistoryStats *)

\* new Date()
Now == [day |-> Today, ms |-> clock]

\* new Date(now.getTime() - days * 24 * 60 * 60 * 1000)
DaysBefore(now, days) == [day |-> now.day - days, ms |-> now.ms]

\* mutant: > for >=
After(a, b) == a.day > b.day \/ (a.day = b.day /\ a.ms > b.ms)

\* new Date(a) >= b: the two dates compared by their time values
OnOrAfter(a, b) == a.day > b.day \/ (a.day = b.day /\ a.ms >= b.ms)

getFilteredWalks(ws, period, now) ==
    CASE period = "week" ->
             SelectSeq(ws, LAMBDA w : OnOrAfter(w.date, DaysBefore(now, 7)))
      [] period = "month" ->
             SelectSeq(ws, LAMBDA w : OnOrAfter(w.date, DaysBefore(now, 30)))
      [] OTHER -> ws

\* [...walks].sort((a, b) => new Date(b.date) - new Date(a.date)): newest
\* first; the sort is stable, records with one date keep their order
RECURSIVE InsertDescending(_, _)
InsertDescending(w, sorted) ==
    IF sorted = <<>> THEN <<w>>
    ELSE IF After(w.date, Head(sorted).date) THEN <<w>> \o sorted
    ELSE <<Head(sorted)>> \o InsertDescending(w, Tail(sorted))

RECURSIVE SortDescending(_)
SortDescending(ws) ==
    IF ws = <<>> THEN <<>>
    ELSE InsertDescending(ws[Len(ws)], SortDescending(SubSeq(ws, 1, Len(ws) - 1)))

\* this.walks.findIndex(w => w.date === date): 0-based, -1 if there is none
FindIndex(ws, date) ==
    IF \E i \in 1..Len(ws) : ws[i].date = date
    THEN (CHOOSE i \in 1..Len(ws) :
              ws[i].date = date /\ \A j \in 1..(i - 1) : ws[j].date # date) - 1
    ELSE -1

\* the items renderHistory writes into historyList: the record displayed and
\* the data-index attribute
RenderItems(ws, filtered) ==
    LET sortedWalks == SortDescending(filtered)
    IN  [k \in 1..Len(sortedWalks) |->
            [walk |-> sortedWalks[k], index |-> FindIndex(ws, sortedWalks[k].date)]]

RECURSIVE SumSteps(_)
SumSteps(ws) == IF ws = <<>> THEN 0 ELSE Head(ws).steps + SumSteps(Tail(ws))

RECURSIVE SumPace(_)
SumPace(ws) == IF ws = <<>> THEN 0 ELSE Head(ws).stepsPerMinute + SumPace(Tail(ws))

RECURSIVE SumDuration(_)
SumDuration(ws) == IF ws = <<>> THEN 0 ELSE Head(ws).duration + SumDuration(Tail(ws))

\* Math.round of num / den, den > 0: the nearest integer, ties upwards
Round(num, den) == (2 * num + den) \div (2 * den)

\* mutant: the pace of the totals, steps over duration
PaceOfTotals(ws) == StepsPerMinute(SumSteps(ws), SumDuration(ws))

\* line 480: the mean of the stored paces, toFixed(1); in tenths
MeanPace(ws) == ToFixed1(SumPace(ws), 10 * Len(ws))

NoStats == [walkCount |-> 0, totalSteps |-> 0, averageSteps |-> 0, averagePace |-> 0]

\* what updateHistoryStats displays for the filtered walks
HistoryStats(filtered) ==
    IF Len(filtered) = 0 THEN NoStats
    ELSE [walkCount    |-> Len(filtered),
          totalSteps   |-> SumSteps(filtered),
          averageSteps |-> Round(SumSteps(filtered), Len(filtered)),
          averagePace  |-> MeanPace(filtered)]

updateHistoryStats(ws, period) ==
    stats' = HistoryStats(getFilteredWalks(ws, period, Now))

\* renderHistory on the collection ws; with nothing to show it returns before
\* updateHistoryStats (line 396)
renderHistory(ws) ==
    LET filtered == getFilteredWalks(ws, currentPeriod, Now)
    IN  /\ historyItems' = RenderItems(ws, filtered)
        /\ IF Len(filtered) = 0
           THEN stats' = stats
           ELSE updateHistoryStats(ws, currentPeriod)

----------------------------------------------------------------------------
(* Construction: constructor -> init -> loadWalks, renderHistory *)

Truthy(item) == item.present /\ item.text # <<>>

\* `saved ? JSON.parse(saved) : []`; a SyntaxError of JSON.parse is not caught,
\* so it leaves loadWalks, init and the constructor: no handler is installed
loadWalks ==
    IF Truthy(storage)
    THEN LET r == Parse(storage.text)
         IN  IF r.ok
             THEN /\ walks' = r.value
                  /\ last' = Op("construct", "none")
                  /\ pc' = "running"
             ELSE /\ walks' = walks
                  /\ last' = Op("construct", "SyntaxError")
                  /\ pc' = "crashed"
    ELSE /\ walks' = <<>>
         /\ last' = Op("construct", "none")
         /\ pc' = "running"

Construct ==
    /\ pc = "boot"
    /\ loadWalks
    /\ IF pc' = "running"
       THEN renderHistory(walks')
       ELSE UNCHANGED <<historyItems, stats>>
    /\ UNCHANGED <<workerVars, clock, hasDeviceMotion, hasRequestPermission, storage, sessionVars,
                   timers, listeners, simulations, handles, pending, buttonText,
                   currentPeriod, prevStepAt>>

----------------------------------------------------------------------------
(* Session: startTracking *)

platformVars == <<hasDeviceMotion, hasRequestPermission>>

\* the test guarding the permission request (lines 140-141)
NeedsPermission == hasDeviceMotion /\ hasRequestPermission

\* outcome of `await requestPermission()`: resolved "granted" or "denied", or
\* "rejected" when the promise rejects; startTracking returns early only on a
\* resolved value other than 'granted'
Outcomes == {"granted", "denied", "rejected"}

\* mutant: the `return` after the alert is missing
ProceedsAlways(outcome) == outcome \in {"granted", "denied", "rejected"}

\* a catch block that returns after logging the error
ProceedsOnGrant(outcome) == outcome = "granted"

Proceeds(outcome) == outcome = "granted" \/ outcome = "rejected"

startStepDetection(h) ==
    IF hasDeviceMotion
    THEN /\ motionHandler' = h
         /\ listeners' = listeners \cup {h}
         /\ UNCHANGED <<simulationInterval, simulations>>
    ELSE /\ simulationInterval' = h
         /\ simulations' = (h :> SimulationPeriod) @@ simulations
         /\ UNCHANGED <<motionHandler, listeners>>

\* lines 153-170: the part of startTracking after the permission request
startTrackingBody ==
    /\ isTracking' = TRUE
    /\ startTime' = clock
    /\ elapsedTime' = 0
    /\ stepCount' = 0
    /\ accelerationBuffer' = <<>>
    /\ buttonText' = "Stop Walk"
    /\ timerInterval' = handles + 1
    /\ timers' = ((handles + 1) :> TimerPeriod) @@ timers
    /\ startStepDetection(handles + 2)
    /\ handles' = handles + 2
    /\ UNCHANGED lastStepTime

\* every suspended startTracking can still get its two handles
HandlesLeft == handles + 2 * (pending + 1) <= MaxHandles

\* click on the control button while idle, no permission gate: toggleTracking
\* runs startTracking to its end
ClickStart ==
    /\ pc = "running"
    /\ ~isTracking
    /\ ~NeedsPermission
    /\ HandlesLeft
    /\ startTrackingBody
    /\ last' = Op("start", "none")
    /\ UNCHANGED <<pc, clock, platformVars, workerVars, storage, walks, pending, viewVars,
                   prevStepAt>>

\* click while idle on a platform with the permission gate: startTracking
\* suspends at the await
ClickRequest ==
    /\ pc = "running"
    /\ ~isTracking
    /\ NeedsPermission
    /\ HandlesLeft
    /\ pending' = pending + 1
    /\ last' = Op("request", "none")
    /\ UNCHANGED <<pc, clock, platformVars, workerVars, storage, walks, sessionVars, timers,
                   listeners, simulations, handles, buttonText, viewVars, prevStepAt>>

\* the permission promise settles and the suspended startTracking resumes
PermissionSettled(outcome) ==
    /\ pc = "running"
    /\ pending > 0
    /\ pending' = pending - 1
    /\ IF Proceeds(outcome)
       THEN startTrackingBody
       ELSE UNCHANGED <<sessionVars, timers, listeners, simulations, handles, buttonText>>
    /\ last' = Op(outcome, "none")
    /\ UNCHANGED <<pc, clock, platformVars, workerVars, storage, walks, viewVars, prevStepAt>>

----------------------------------------------------------------------------
(* Session: stopTracking *)

\* localStorage.setItem; it throws when the quota is exceeded (ok = FALSE)
setItem(ws, ok) ==
    IF ok
    THEN storage' = [present |-> TRUE, text |-> Stringify(ws)]
    ELSE storage' = storage

SetItemError(ok) == IF ok THEN "none" ELSE "QuotaExceededError"

\* mutant: the collection is written before the record is pushed
saveWalkStale(walkData, ok) ==
    /\ walks' = Append(walks, walkData)
    /\ setItem(walks, ok)

saveWalk(walkData, ok) ==
    /\ walks' = Append(walks, walkData)
    /\ setItem(Append(walks, walkData), ok)

stopStepDetection ==
    /\ IF motionHandler # 0
       THEN /\ listeners' = listeners \ {motionHandler}
            /\ motionHandler' = 0
       ELSE UNCHANGED <<listeners, motionHandler>>
    /\ IF simulationInterval # 0
       THEN /\ simulations' = Without(simulations, simulationInterval)
            /\ simulationInterval' = 0
       ELSE UNCHANGED <<simulations, simulationInterval>>

clearTimer ==
    IF timerInterval # 0
    THEN /\ timers' = Without(timers, timerInterval)
         /\ timerInterval' = 0
    ELSE UNCHANGED <<timers, timerInterval>>

\* mutant: >= for >
ShouldSaveFrom(duration) == duration >= MinWalkDuration

ShouldSave(duration) == duration > MinWalkDuration

WalkData(duration, steps) ==
    [date |-> Now, duration |-> duration, steps |-> steps,
     stepsPerMinute |-> StepsPerMinute(steps, duration)]

stopTracking(ok) ==
    LET duration == elapsedTime
        steps    == stepCount
    IN  /\ isTracking' = FALSE
        /\ clearTimer
        /\ stopStepDetection
        /\ IF ShouldSave(duration)
           THEN saveWalk(WalkData(duration, steps), ok)
           ELSE UNCHANGED <<walks, storage>>
        \* lines 200-216 run only if saveWalk returned
        /\ buttonText' = IF ShouldSave(duration) /\ ~ok THEN buttonText ELSE "Start Walk"
        /\ UNCHANGED <<startTime, elapsedTime, stepCount, accelerationBuffer, lastStepTime>>

\* click on the control button while tracking
ClickStop(ok) ==
    /\ pc = "running"
    /\ isTracking
    /\ stopTracking(ok)
    /\ last' = Op("stop", IF ShouldSave(elapsedTime) THEN SetItemError(ok) ELSE "none")
    /\ UNCHANGED <<pc, clock, platformVars, workerVars, handles, pending, viewVars, prevStepAt>>

----------------------------------------------------------------------------
(* Timer, step detector, fallback generator *)

\* mutant: the elapsed time is accumulated, one period per tick
TimerTickAccumulating(h) ==
    /\ pc = "running"
    /\ h \in DOMAIN timers
    /\ timers[h] = 0
    /\ elapsedTime' = elapsedTime + TimerPeriod
    /\ timers' = [timers EXCEPT ![h] = TimerPeriod]
    /\ UNCHANGED <<pc, clock, platformVars, workerVars, storage, walks, isTracking, startTime,
                   stepCount, accelerationBuffer, lastStepTime, timerInterval,
                   motionHandler, simulationInterval, listeners, simulations,
                   handles, pending, buttonText, viewVars, last, prevStepAt>>

\* setInterval(() => this.updateTimer(), 100) firing; updateTimer has no
\* isTracking test, so a timer that is still live runs it in any state
TimerTick(h) ==
    /\ pc = "running"
    /\ h \in DOMAIN timers
    /\ timers[h] = 0
    /\ elapsedTime' = clock - startTime
    /\ timers' = [timers EXCEPT ![h] = TimerPeriod]
    /\ UNCHANGED <<pc, clock, platformVars, workerVars, storage, walks, isTracking, startTime,
                   stepCount, accelerationBuffer, lastStepTime, timerInterval,
                   motionHandler, simulationInterval, listeners, simulations,
                   handles, pending, buttonText, viewVars, last, prevStepAt>>

\* the fields handleMotion and registerStep work on
Detector ==
    [stepCount |-> stepCount, lastStepTime |-> lastStepTime,
     buffer |-> accelerationBuffer, prevStepAt |-> prevStepAt]

registerStep(s) ==
    [s EXCEPT !.stepCount = @ + 1, !.prevStepAt = clock]

Magnitude(e) == Sqrt(e.x * e.x + e.y * e.y + e.z * e.z)

\* mutant: the oldest magnitude is never shifted out
PushUnbounded(buffer, magnitude) == Append(buffer, magnitude)

Push(buffer, magnitude) ==
    LET pushed == Append(buffer, magnitude)
    IN  IF Len(pushed) > bufferSize THEN Tail(pushed) ELSE pushed

\* mutant: >= for >
DeviatesFrom(buffer) ==
    Abs(Sum(buffer) - Gravity * Len(buffer)) >= stepThreshold * Len(buffer)

\* |avg - 9.8| > stepThreshold with avg = Sum / Len, cleared of the division
Deviates(buffer) ==
    Abs(Sum(buffer) - Gravity * Len(buffer)) > stepThreshold * Len(buffer)

\* mutant: the debounce compares nothing
IntervalIgnored(now, lastStep) == now >= lastStep \/ now < lastStep

IntervalPassed(now, lastStep) == now - lastStep > minStepInterval

handleMotion(s, e) ==
    IF ~isTracking THEN s
    ELSE IF ~e.has THEN s
    ELSE LET buffer == Push(s.buffer, Magnitude(e))
             t      == [s EXCEPT !.buffer = buffer]
         IN  IF Deviates(buffer) /\ IntervalPassed(clock, s.lastStepTime)
             THEN [registerStep(t) EXCEPT !.lastStepTime = clock]
             ELSE t

\* one devicemotion event is delivered to every registered handler in turn
RECURSIVE Dispatch(_, _, _)
Dispatch(s, n, e) == IF n = 0 THEN s ELSE Dispatch(handleMotion(s, e), n - 1, e)

DeviceMotion(e) ==
    /\ pc = "running"
    /\ listeners # {}
    /\ LET s == Dispatch(Detector, Cardinality(listeners), e)
       IN  /\ stepCount' = s.stepCount
           /\ lastStepTime' = s.lastStepTime
           /\ accelerationBuffer' = s.buffer
           /\ prevStepAt' = s.prevStepAt
    /\ UNCHANGED <<pc, clock, platformVars, workerVars, storage, walks, isTracking, startTime,
                   elapsedTime, timerInterval, motionHandler, simulationInterval,
                   timers, listeners, simulations, handles, pending, buttonText,
                   viewVars, last>>

\* the simulateSteps interval firing; lucky is Math.random() > 0.1
SimulationTick(h, lucky) ==
    /\ pc = "running"
    /\ h \in DOMAIN simulations
    /\ simulations[h] = 0
    /\ simulations' = [simulations EXCEPT ![h] = SimulationPeriod]
    /\ LET s == IF isTracking /\ lucky THEN registerStep(Detector) ELSE Detector
       IN  /\ stepCount' = s.stepCount
           /\ prevStepAt' = s.prevStepAt
    /\ UNCHANGED <<pc, clock, platformVars, workerVars, storage, walks, isTracking, startTime,
                   elapsedTime, accelerationBuffer, lastStepTime, timerInterval,
                   motionHandler, simulationInterval, timers, listeners, handles,
                   pending, buttonText, viewVars, last>>

----------------------------------------------------------------------------
(* Walk store: deleteWalk *)

\* renderHistory and updateChart (lines 358-359) run only if setItem returned;
\* otherwise the history list stays as it was rendered
deleteWalk(index, ok) ==
    /\ walks' = Splice1(walks, index)
    /\ setItem(Splice1(walks, index), ok)
    /\ IF ok
       THEN renderHistory(Splice1(walks, index))
       ELSE UNCHANGED <<historyItems, stats>>

DeleteWalk(index, ok) ==
    /\ pc = "running"
    /\ deleteWalk(index, ok)
    /\ last' = [op |-> "delete", nan |-> index.nan, n |-> index.n, len |-> Len(walks),
                 thrown |-> SetItemError(ok)]
    /\ UNCHANGED <<pc, clock, platformVars, workerVars, sessionVars, timers, listeners,
                   simulations, handles, pending, buttonText, currentPeriod,
                   prevStepAt>>

\* touchend on the rendered item k, a swipe to the left, confirmed:
\* deleteWalk(parseInt(item.dataset.index))
SwipeDelete(k, ok) ==
    /\ pc = "running"
    /\ k \in 1..Len(historyItems)
    /\ deleteWalk([nan |-> FALSE, n |-> historyItems[k].index], ok)
    /\ last' = [op |-> "swipe", nan |-> FALSE, n |-> k, len |-> Len(walks),
                 thrown |-> SetItemError(ok)]
    /\ UNCHANGED <<pc, clock, platformVars, workerVars, sessionVars, timers, listeners,
                   simulations, handles, pending, buttonText, currentPeriod,
                   prevStepAt>>

----------------------------------------------------------------------------
(* History view: switchTab, switchPeriod *)

Periods == {"week", "month", "all"}

\* a history tab whose sort reorders the walk store itself
SwitchTabSortingInPlace ==
    /\ pc = "running"
    /\ walks' = SortDescending(walks)
    /\ renderHistory(walks')
    /\ last' = Op("tab", "none")
    /\ UNCHANGED <<pc, clock, platformVars, workerVars, storage, sessionVars, timers,
                   listeners, simulations, handles, pending, buttonText,
                   currentPeriod, prevStepAt>>

\* click on the History tab
SwitchTab ==
    /\ pc = "running"
    /\ renderHistory(walks)
    /\ last' = Op("tab", "none")
    /\ UNCHANGED <<pc, clock, platformVars, workerVars, storage, walks, sessionVars, timers,
                   listeners, simulations, handles, pending, buttonText,
                   currentPeriod, prevStepAt>>

\* click on a period button: the statistics are recomputed, the list is not
SwitchPeriod(period) ==
    /\ pc = "running"
    /\ currentPeriod' = period
    /\ updateHistoryStats(walks, period)
    /\ last' = Op("period", "none")
    /\ UNCHANGED <<pc, clock, platformVars, workerVars, storage, walks, sessionVars, timers,
                   listeners, simulations, handles, pending, buttonText,
                   historyItems, prevStepAt>>

----------------------------------------------------------------------------
(* Time *)

Countdown(f, d) == [h \in DOMAIN f |-> IF f[h] > d THEN f[h] - d ELSE 0]

Advance(d) ==
    /\ clock + d <= T0 + Horizon
    /\ clock' = clock + d
    /\ timers' = Countdown(timers, d)
    /\ simulations' = Countdown(simulations, d)
    /\ UNCHANGED <<pc, platformVars, workerVars, storage, walks, sessionVars, listeners,
                   handles, pending, buttonText, viewVars, last, prevStepAt>>

----------------------------------------------------------------------------
(* Service worker (src/sw.js).  A response is the record [status, body];   *)
(* the body tells where the response was made.  Missing stands for the     *)
(* undefined that caches.match resolves to when nothing matches.  The sync *)
(* handler only logs and has no action.                                    *)

CACHE_NAME == "steptracker-v1"

urlsToCache ==
    {"/", "/index.html", "/styles.css", "/app.js", "/manifest.json",
     "https://cdn.jsdelivr.net/npm/chart.js@4.4.1/dist/chart.umd.min.js"}

\* the URLs requested from the origin: the precached ones and one that is not
Urls == urlsToCache \cup {"/favicon.ico"}

Missing == [status |-> 0, body |-> "none"]

\* what cache.addAll stores: it rejects unless every response is ok
Precached == [status |-> 200, body |-> "precached"]

\* the response fetch(event.request) resolves to
Fetched(status) == [status |-> status, body |-> "fetched"]

\* new Response('Offline', {status: 503, statusText: 'Service Unavailable'})
Offline == [status |-> 503, body |-> "Offline"]

\* fetch events: navigations and subresource requests, precached or not
Requests ==
    {[url |-> "/", mode |-> "navigate"],
     [url |-> "/index.html", mode |-> "navigate"],
     [url |-> "/app.js", mode |-> "no-cors"],
     [url |-> "/favicon.ico", mode |-> "no-cors"]}

\* fetch(event.request): rejects, or resolves to a response with a status
NetworkOutcomes ==
    {[ok |-> FALSE, status |-> 0], [ok |-> TRUE, status |-> 200],
     [ok |-> TRUE, status |-> 404]}

\* caches of an earlier version of the worker
OldCacheNames == {{}, {"steptracker-v0"}}

NoAnswer ==
    [event |-> 0, url |-> "", mode |-> "", net |-> [ok |-> FALSE, status |-> 0],
     response |-> Missing]

\* install, lines 12-24: a failure of addAll is caught and logged, and the
\* worker installs with whatever the cache held
Install(ok) ==
    /\ swState = "parsed"
    /\ swState' = "installed"
    /\ cacheNames' = cacheNames \cup {CACHE_NAME}
    /\ cache' = IF ok
                THEN [u \in Urls |-> IF u \in urlsToCache THEN Precached ELSE cache[u]]
                ELSE cache
    /\ UNCHANGED <<puts, answer, pageVars>>

\* activate, lines 27-41: every cache of another name is deleted
Activate ==
    /\ swState = "installed"
    /\ swState' = "activated"
    /\ cacheNames' = cacheNames \cap {CACHE_NAME}
    /\ UNCHANGED <<cache, puts, answer, pageVars>>

\* caches.match(key)
match(url) == cache[url]

\* the .catch of the fetch handler, lines 61-79
Fallback(request) ==
    LET response == match(request.url)
    IN  IF response # Missing THEN response
        ELSE IF request.mode = "navigate" THEN match("/index.html")
        ELSE Offline

\* what event.respondWith receives, lines 45-80
Respond(request, net) ==
    IF net.ok THEN Fetched(net.status) ELSE Fallback(request)

\* fetch, lines 44-81: the event is answered; the cache.put of a 200 response
\* is started and not waited for
Fetch(request, net) ==
    /\ swState = "activated"
    /\ answer' = [event |-> 1 - answer.event, url |-> request.url,
                  mode |-> request.mode, net |-> net,
                  response |-> Respond(request, net)]
    /\ puts' = IF net.ok /\ net.status = 200
               THEN puts \cup {[url |-> request.url, response |-> Fetched(net.status)]}
               ELSE puts
    /\ UNCHANGED <<swState, cacheNames, cache, pageVars>>

\* caches.open(CACHE_NAME).then(cache => cache.put(...)), lines 52-56, settles:
\* the entry is written, or the put rejects and nobody handles the rejection
CachePut(w, ok) ==
    /\ w \in puts
    /\ puts' = puts \ {w}
    /\ cacheNames' = cacheNames \cup {CACHE_NAME}
    /\ cache' = IF ok THEN [cache EXCEPT ![w.url] = w.response] ELSE cache
    /\ UNCHANGED <<swState, answer, pageVars>>

\* the worker's script was fetched and parsed, nothing has run
FreshWorker ==
    /\ swState = "parsed"
    /\ cache = [u \in Urls |-> Missing]
    /\ puts = {}
    /\ answer = NoAnswer

InitWorker == FreshWorker /\ cacheNames = {}

----------------------------------------------------------------------------
(* Specifications *)

InitSession ==
    /\ pc = "boot"
    /\ clock = T0
    /\ isTracking = FALSE
    /\ startTime = 0
    /\ elapsedTime = 0
    /\ stepCount = 0
    /\ timerInterval = 0
    /\ motionHandler = 0
    /\ simulationInterval = 0
    /\ lastStepTime = 0
    /\ accelerationBuffer = <<>>
    /\ walks = <<>>
    /\ timers = <<>>
    /\ listeners = {}
    /\ simulations = <<>>
    /\ handles = 0
    /\ pending = 0
    /\ buttonText = "Start Walk"
    /\ currentPeriod = "week"
    /\ historyItems = <<>>
    /\ stats = NoStats
    /\ last = Op("none", "none")
    /\ prevStepAt = 0

\* The walk session on the three kinds of platform: no motion sensor (fallback
\* generator), sensor without permission gate, sensor behind the permission gate.
Init ==
    /\ InitSession
    /\ InitWorker
    /\ hasDeviceMotion \in BOOLEAN
    /\ hasRequestPermission \in BOOLEAN
    /\ hasRequestPermission => hasDeviceMotion
    /\ storage \in InitialStorage

Next ==
    \/ Construct
    \/ ClickStart
    \/ ClickRequest
    \/ \E outcome \in Outcomes : PermissionSettled(outcome)
    \/ \E ok \in BOOLEAN : ClickStop(ok)
    \/ \E h \in DOMAIN timers : TimerTick(h)
    \/ \E e \in Samples : DeviceMotion(e)
    \/ \E h \in DOMAIN simulations, lucky \in BOOLEAN : SimulationTick(h, lucky)
    \/ \E d \in Deltas : Advance(d)

Spec == Init /\ [][Next]_vars

\* The walk store with its deletions, fed by sessions on the platform without
\* a motion sensor, starting from a store that earlier sessions filled.
\* deleteWalk reads and writes walks and storage only, which of the session's
\* handlers only stopTracking touches.
InitStore ==
    /\ InitSession
    /\ InitWorker
    /\ hasDeviceMotion = FALSE
    /\ hasRequestPermission = FALSE
    /\ storage \in StoreStorage

NextStore ==
    \/ Construct
    \/ ClickStart
    \/ \E ok \in BOOLEAN : ClickStop(ok)
    \/ \E h \in DOMAIN timers : TimerTick(h)
    \/ \E h \in DOMAIN simulations, lucky \in BOOLEAN : SimulationTick(h, lucky)
    \/ \E index \in Indices, ok \in BOOLEAN : DeleteWalk(index, ok)
    \/ \E d \in Deltas : Advance(d)

SpecStore == InitStore /\ [][NextStore]_vars

\* The step detector on a platform with a motion sensor and no permission
\* gate, fed with samples at rest, at the threshold and in motion, over
\* DetectorHorizon ms in steps of minStepInterval.
InitDetector ==
    /\ InitSession
    /\ InitWorker
    /\ hasDeviceMotion = TRUE
    /\ hasRequestPermission = FALSE
    /\ storage = [present |-> FALSE, text |-> <<>>]

NextDetector ==
    \/ Construct
    \/ ClickStart
    \/ \E ok \in BOOLEAN : ClickStop(ok)
    \/ \E h \in DOMAIN timers : TimerTick(h)
    \/ \E e \in DetectorSamples : DeviceMotion(e)
    \/ (clock + minStepInterval <= T0 + DetectorHorizon /\ Advance(minStepInterval))

SpecDetector == InitDetector /\ [][NextDetector]_vars

\* The history view over stores of several ages, with swipe deletions whose
\* storage write succeeds or fails, and with sessions that append to the
\* store: on the platform without a motion sensor, the fallback generator
\* registering nothing, the write at stop succeeding.  Time passes in steps
\* long enough for a walk to be saved.
InitHistory ==
    /\ InitSession
    /\ InitWorker
    /\ hasDeviceMotion = FALSE
    /\ hasRequestPermission = FALSE
    /\ storage \in HistoryStorage

NextHistory ==
    \/ Construct
    \/ SwitchTab
    \/ \E period \in Periods : SwitchPeriod(period)
    \/ \E k \in 1..Len(historyItems), ok \in BOOLEAN : SwipeDelete(k, ok)
    \/ ClickStart
    \/ ClickStop(TRUE)
    \/ \E h \in DOMAIN timers : TimerTick(h)
    \/ \E h \in DOMAIN simulations : SimulationTick(h, FALSE)
    \/ Advance(MinWalkDuration + TimerPeriod)

SpecHistory == InitHistory /\ [][NextHistory]_vars

\* The service worker from its first installation, with or without caches of
\* an earlier version, the precaching succeeding or failing, serving fetch
\* events with the network up or down; the page is not opened.
InitServiceWorker ==
    /\ InitSession
    /\ hasDeviceMotion = FALSE
    /\ hasRequestPermission = FALSE
    /\ storage = [present |-> FALSE, text |-> <<>>]
    /\ FreshWorker
    /\ cacheNames \in OldCacheNames

NextServiceWorker ==
    \/ \E ok \in BOOLEAN : Install(ok)
    \/ Activate
    \/ \E request \in Requests, net \in NetworkOutcomes : Fetch(request, net)
    \/ \E w \in puts, ok \in BOOLEAN : CachePut(w, ok)

SpecServiceWorker == InitServiceWorker /\ [][NextServiceWorker]_vars

----------------------------------------------------------------------------
(* Properties *)

StopStep == isTracking /\ ~isTracking'

DeleteStep == last'.op = "delete" /\ (last' # last \/ walks' # walks)

\* what loadWalks would read back from a storage item
Persisted(item) == IF Truthy(item) THEN Parse(item.text).value ELSE <<>>

RemoveAt(ws, i) == [j \in 1..(Len(ws) - 1) |-> IF j < i THEN ws[j] ELSE ws[j + 1]]

NoTimerNoFeed == DOMAIN timers = {} /\ listeners = {} /\ DOMAIN simulations = {}

\* C1: after stopTracking has run, no elapsed-time timer and no step feed
\* (devicemotion listener, simulation interval) of any earlier startTracking
\* is still registered.
C1_StopCancelsEverything ==
    (last.op = "stop" /\ ~isTracking) => NoTimerNoFeed

\* C2: any two calls of registerStep are at least minStepInterval (250 ms)
\* of clock time apart, on the sensor path (with one or several handlers
\* registered) and on the fallback path; in particular one event never
\* registers two steps.
C2_StepsAtLeastIntervalApart ==
    [][stepCount' > stepCount =>
         /\ stepCount' = stepCount + 1
         /\ prevStepAt # 0 => clock' - prevStepAt >= 250]_vars

C2_Witness ==
    /\ Cardinality(listeners) >= 2
    /\ stepCount >= 2

\* C3: stopTracking appends a record if and only if elapsedTime > 1000; when
\* elapsedTime <= 1000 the collection in memory and the persisted one are
\* both left as they were.
C3_SavesIffLongerThanOneSecond ==
    [][StopStep =>
         IF elapsedTime > 1000
         THEN Len(walks') = Len(walks) + 1
         ELSE walks' = walks /\ storage' = storage]_vars

C3_Witness ==
    /\ last.op = "stop"
    /\ elapsedTime = 1000
    /\ walks = <<>>

\* C4: a stop that saves appends exactly one record, whose duration is the
\* session's elapsedTime, whose steps is its stepCount, and whose
\* stepsPerMinute is steps / (duration / 60000) to the nearest tenth.
C4_RecordIsTheSessionAtStop ==
    [][StopStep /\ elapsedTime > 1000 =>
         /\ Len(walks') = Len(walks) + 1
         /\ SubSeq(walks', 1, Len(walks)) = walks
         /\ LET w == walks'[Len(walks')]
            IN  /\ w.duration = elapsedTime
                /\ w.steps = stepCount
                /\ 2 * Abs(w.stepsPerMinute * elapsedTime - 600000 * stepCount)
                       <= elapsedTime]_vars

C4_Witness ==
    /\ last.op = "stop"
    /\ walks # <<>>
    /\ walks[Len(walks)].duration = 1100
    /\ walks[Len(walks)].steps = 2
    /\ walks[Len(walks)].stepsPerMinute = 1091

\* C5: deleteWalk(i) with 0 <= i < length removes exactly the record at
\* position i: the others keep their content and their order.
C5_DeleteRemovesThatRecord ==
    [][(DeleteStep /\ ~last'.nan /\ 0 <= last'.n /\ last'.n < Len(walks)) =>
         walks' = RemoveAt(walks, last'.n + 1)]_vars

C5_Witness ==
    /\ last.op = "delete"
    /\ ~last.nan
    /\ last.n = 1
    /\ last.len = 3
    /\ Len(walks) = 2

\* C6: deleteWalk with an index out of range (negative, >= length, NaN)
\* changes neither the collection in memory nor the persisted one.  Stated
\* for the deletions whose storage write succeeds, where the two collections
\* are written together.
C6_OutOfRangeDeleteIsNoOp ==
    [][(/\ DeleteStep
        /\ last'.thrown = "none"
        /\ (last'.nan \/ last'.n < 0 \/ last'.n >= Len(walks))) =>
         /\ walks' = walks
         /\ Persisted(storage') = Persisted(storage)]_vars

\* C7: after any saveWalk or deleteWalk the persisted collection, read back,
\* is the collection in memory.
C7_PersistedIsMemory ==
    (pc = "running" /\ last.op \in {"stop", "delete"}) => Persisted(storage) = walks

\* C7, amended: after every saveWalk or deleteWalk whose storage write
\* succeeded, the persisted text parses and reads back as the collection in
\* memory, record for record.
C7_PersistedIsMemoryAfterWrite ==
    [][((DeleteStep \/ (StopStep /\ elapsedTime > 1000)) /\ last'.thrown = "none") =>
         /\ storage'.present
         /\ Parse(storage'.text) = [ok |-> TRUE, value |-> walks']]_vars

C7_Witness ==
    /\ last.op = "delete"
    /\ last.thrown = "none"
    /\ last.len = 3
    /\ Len(walks) = 2
    /\ Persisted(storage) = walks

\* C8: a failing storage write in saveWalk or deleteWalk is caught: no error
\* leaves the handler, and stopTracking runs to its end.
C8_WriteFailureIsCaught ==
    /\ last.op \in {"stop", "delete"} => last.thrown = "none"
    /\ last.op = "stop" => (~isTracking /\ buttonText = "Start Walk")

\* C9: loadWalks yields the stored collection when the stored text is valid
\* and the empty collection when nothing is stored or the text does not
\* parse; it raises nothing and the application initializes.
C9_LoadWalksNeverFails ==
    last.op = "construct" =>
        /\ pc = "running"
        /\ last.thrown = "none"
        /\ walks = Persisted(storage)

\* C10: when the permission request resolves to something other than
\* 'granted', startTracking changes no session state and creates no timer
\* and no feed.
C10_DeniedStartIsNoOp ==
    [][(last'.op = "denied" /\ pending' = pending - 1) =>
         /\ UNCHANGED <<isTracking, startTime, elapsedTime, stepCount, accelerationBuffer>>
         /\ UNCHANGED <<timers, listeners, simulations>>
         /\ UNCHANGED <<timerInterval, motionHandler, simulationInterval>>
         /\ ~isTracking => ~isTracking']_vars

C10_Witness ==
    /\ last.op = "denied"
    /\ ~isTracking
    /\ startTime = 0
    /\ NoTimerNoFeed
    /\ handles = 0

\* the age of a date, now - date, is at most days * 24 h
WithinLast(date, days) ==
    \/ Now.day - date.day < days
    \/ Now.day - date.day = days /\ Now.ms - date.ms <= 0

\* C12: getFilteredWalks returns, in store order, the records whose date is
\* within the last 7 * 24 h for 'week', within the last 30 * 24 h for
\* 'month', and the whole store for 'all'.
C12_FilterSelectsThePeriod ==
    getFilteredWalks(walks, currentPeriod, Now) =
        CASE currentPeriod = "week" ->
                 SelectSeq(walks, LAMBDA w : WithinLast(w.date, 7))
          [] currentPeriod = "month" ->
                 SelectSeq(walks, LAMBDA w : WithinLast(w.date, 30))
          [] currentPeriod = "all" -> walks

\* page loaded on a store holding a record 7 days and 1 ms old, one exactly
\* 7 days old and one 1 hour old: the list shows the last two
C12_Witness ==
    /\ last.op = "construct"
    /\ currentPeriod = "week"
    /\ walks = <<OverWeek, WeekOld, HourOld>>
    /\ Len(historyItems) = 2
    /\ historyItems[2].walk = WeekOld

\* updateHistoryStats ran: nothing else writes the statistics or the period
StatsStep == stats' # stats \/ currentPeriod' # currentPeriod

\* C13: the statistics displayed for the filtered records are their number,
\* the sum of their steps, that sum over their number rounded to the nearest
\* integer, and the mean of their stored stepsPerMinute to one decimal; all
\* four are 0 when no record is selected.
C13_StatsOfFilteredWalks ==
    [][StatsStep =>
         LET f == getFilteredWalks(walks', currentPeriod', Now')
             n == Len(f)
         IN  /\ stats'.walkCount = n
             /\ stats'.totalSteps = SumSteps(f)
             /\ 2 * Abs(stats'.averageSteps * n - SumSteps(f)) <= n
             /\ 2 * Abs(stats'.averagePace * n - SumPace(f)) <= n
             /\ n = 0 => stats' = NoStats]_vars

\* WeekOld and HourOld: 123 steps, paces 90.0 and 120.0
C13_Witness ==
    /\ walks = <<OverWeek, WeekOld, HourOld>>
    /\ stats = [walkCount |-> 2, totalSteps |-> 123, averageSteps |-> 62,
                 averagePace |-> 1050]

\* a confirmed swipe on a rendered item ran deleteWalk
SwipeStep == last'.op = "swipe" /\ (last' # last \/ walks' # walks)

DistinctDates(ws) == \A i, j \in 1..Len(ws) : ws[i].date = ws[j].date => i = j

\* C19: the index of every rendered item is the position of the first record
\* of the store carrying the item's date, also after later appends; so a
\* confirmed swipe removes the earliest record with the item's date, which is
\* the displayed record when all dates are distinct.
C19_SwipeDeletesTheDisplayedRecord ==
    [][SwipeStep =>
         LET item == historyItems[last'.n]
         IN  /\ item.index = FindIndex(walks, item.walk.date)
             /\ item.index >= 0
             /\ walks' = RemoveAt(walks, item.index + 1)
             /\ DistinctDates(walks) => walks[item.index + 1] = item.walk]_vars

\* the body of startTracking (lines 153-170) ran: it alone hands out handles
StartStep == handles' = handles + 2

Feeds == Cardinality(listeners) + Cardinality(DOMAIN simulations)

\* C11: immediately after a successful startTracking, isTracking is true,
\* startTime is the current time, elapsedTime and stepCount are 0, the
\* acceleration buffer is empty, and one elapsed-time timer is running and
\* one step feed is active.
C11_StartState ==
    [][StartStep =>
         /\ isTracking'
         /\ startTime' = clock'
         /\ elapsedTime' = 0
         /\ stepCount' = 0
         /\ accelerationBuffer' = <<>>
         /\ Cardinality(DOMAIN timers') = 1
         /\ Feeds' = 1]_vars

\* C14: the pace computed on a tick (live readout) and at stop (final pace)
\* is stepCount / (elapsedTime / 60000) to one decimal when elapsedTime > 0
\* and 0 when elapsedTime = 0, for every reachable elapsedTime and stepCount;
\* 120 steps in 60000 ms give 120.0.
C14_PaceIsGuarded ==
    /\ elapsedTime >= 0
    /\ elapsedTime = 0 =>
           /\ LivePace(stepCount, elapsedTime) = 0
           /\ StepsPerMinute(stepCount, elapsedTime) = 0
    /\ elapsedTime > 0 =>
           /\ 2 * Abs(LivePace(stepCount, elapsedTime) * elapsedTime
                       - 600000 * stepCount) <= elapsedTime
           /\ 2 * Abs(StepsPerMinute(stepCount, elapsedTime) * elapsedTime
                       - 600000 * stepCount) <= elapsedTime
    /\ LivePace(120, 60000) = 1200
    /\ StepsPerMinute(120, 60000) = 1200

C14_Witness ==
    /\ last.op = "stop"
    /\ elapsedTime = 0
    /\ stepCount > 0

\* C15: in every reachable state the acceleration buffer holds at most
\* bufferSize (4) magnitudes.
C15_BufferBounded == Len(accelerationBuffer) <= 4

C15_Witness ==
    /\ last.op = "stop"
    /\ ~isTracking
    /\ Len(accelerationBuffer) = 4
    /\ stepCount >= 2

\* an updateTimer callback ran
TickStep ==
    /\ clock' = clock
    /\ \E h \in DOMAIN timers :
          timers[h] = 0 /\ timers' = [timers EXCEPT ![h] = TimerPeriod]

\* C16: after every timer tick elapsedTime is the time of the tick minus the
\* session's startTime, whatever it was before; it is never negative and,
\* while one session lasts, never decreases.
C16_ElapsedIsRecomputed ==
    [][/\ TickStep => elapsedTime' = clock' - startTime'
       /\ elapsedTime' >= 0
       /\ (isTracking /\ startTime' = startTime) => elapsedTime' >= elapsedTime]_vars

\* a tick that was delayed by 1000 ms: the first one of its session
C16_Witness ==
    /\ isTracking
    /\ elapsedTime = 1100
    /\ clock = startTime + 1100
    /\ \E h \in DOMAIN timers : timers[h] = TimerPeriod

\* C17: the body of startTracking runs only when the session is Idle, so at
\* any time at most one elapsed-time timer and at most one step feed exist.
C17_AtMostOneTimerOneFeed ==
    /\ Cardinality(DOMAIN timers) <= 1
    /\ Feeds <= 1

\* C18: while the session is Idle no timer tick, motion sample or fallback
\* tick changes elapsedTime, stepCount, accelerationBuffer or lastStepTime.
C18_IdleFrame ==
    [][(~isTracking /\ ~isTracking') =>
         UNCHANGED <<elapsedTime, stepCount, accelerationBuffer, lastStepTime>>]_vars

\* a motion sample was processed while Active and left a trace
MotionStep ==
    /\ isTracking /\ isTracking'
    /\ clock' = clock
    /\ (accelerationBuffer' # accelerationBuffer \/ stepCount' # stepCount)

\* C20: a motion sample processed while Active registers a step if and only
\* if the mean of the buffer (the sample included) deviates from 9.8 by more
\* than 1.2 and more than 250 ms have passed since lastStepTime, both strictly;
\* lastStepTime becomes the current time exactly when a step is registered and
\* no other operation (start and stop included) changes it.
C20_StepIffDeviationAndInterval ==
    [][/\ MotionStep =>
            /\ stepCount' \in {stepCount, stepCount + 1}
            /\ (stepCount' = stepCount + 1) <=>
                   /\ Abs(Sum(accelerationBuffer') - 98 * Len(accelerationBuffer'))
                          > 12 * Len(accelerationBuffer')
                   /\ clock - lastStepTime > 250
            /\ lastStepTime' = IF stepCount' = stepCount + 1 THEN clock ELSE lastStepTime
       /\ ~MotionStep => lastStepTime' = lastStepTime]_vars

\* second session: a sample in motion arrives exactly 250 ms after the last
\* step of the first session and registers nothing
C20_Witness ==
    /\ isTracking
    /\ handles = 4
    /\ stepCount = 0
    /\ accelerationBuffer = <<130>>
    /\ lastStepTime = clock - 250

\* the feed the platform selects, and only that kind, is active
FeedSelected ==
    IF hasDeviceMotion
    THEN listeners # {} /\ DOMAIN simulations = {}
    ELSE DOMAIN simulations # {} /\ listeners = {}

\* C21: while a session is Active exactly one of the two feeds is active, the
\* devicemotion listener where the platform exposes DeviceMotionEvent and the
\* fallback interval elsewhere; the two are never active together, and when
\* the session is stopped stopStepDetection leaves no feed active.
C21_FeedSelectedAndCleared ==
    [][/\ isTracking' => FeedSelected'
       /\ ~(listeners' # {} /\ DOMAIN simulations' # {})
       /\ StopStep => (listeners' = {} /\ DOMAIN simulations' = {})]_vars

\* C22: during an Active session stepCount is the number of step events
\* registered since the session was started: the start of the session sets it
\* to 0, every registered step event adds exactly 1 to it, and no other
\* operation, the stop that reads it included, changes it, so that no step
\* registered after the start is lost.
C22_CountIsStepsSinceStart ==
    [][IF StartStep /\ ~isTracking
       THEN stepCount' = 0
       ELSE IF prevStepAt' # prevStepAt
            THEN isTracking /\ stepCount' = stepCount + 1
            ELSE stepCount' = stepCount]_vars

\* the history tab was opened or a period was selected
ViewStep ==
    /\ last'.op \in {"tab", "period"}
    /\ UNCHANGED <<clock, sessionVars, timers, simulations>>

\* C23: filtering, computing the statistics and sorting for the history list
\* and the chart are read-only: opening the history tab or selecting a period
\* leaves the in-memory collection (records, fields, order) and the persisted
\* collection unchanged, for every period and every store content.
C23_ViewsAreReadOnly ==
    [][ViewStep => UNCHANGED <<walks, storage>>]_vars

\* the list shows the latest walk first while the store is still in the order
\* of insertion, after the period "all" was selected and the tab opened
C23_Witness ==
    /\ last.op = "tab"
    /\ currentPeriod = "all"
    /\ walks = <<OverWeek, WeekOld, HourOld>>
    /\ storage.text = Stringify(walks)
    /\ Len(historyItems) = 3
    /\ historyItems[1].walk = HourOld
    /\ stats # NoStats

\* C24: when the permission request fails with an error the suspended
\* startTracking does not abort: it runs on to the Active state as after a
\* grant, with the session fields reset, the button relabelled, a new timer
\* and a new step feed.
C24_RejectedRequestStarts ==
    [][(last'.op = "rejected" /\ pending' = pending - 1) =>
         /\ isTracking'
         /\ startTime' = clock
         /\ elapsedTime' = 0
         /\ stepCount' = 0
         /\ accelerationBuffer' = <<>>
         /\ buttonText' = "Stop Walk"
         /\ timerInterval' \in DOMAIN timers' \ DOMAIN timers
         /\ DOMAIN timers' = DOMAIN timers \cup {timerInterval'}
         /\ motionHandler' \in listeners' \ listeners
         /\ listeners' = listeners \cup {motionHandler'}
         /\ UNCHANGED <<simulations, simulationInterval>>]_vars

\* the only request failed and the session is Active with its timer and its
\* devicemotion listener
C24_Witness ==
    /\ last.op = "rejected"
    /\ isTracking
    /\ pending = 0
    /\ buttonText = "Stop Walk"
    /\ DOMAIN timers = {timerInterval}
    /\ listeners = {motionHandler}
    /\ handles = 2

\* a fetch event was handled
FetchStep == answer'.event # answer.event

\* C25: the fetch handler is network-first.  A fetch that succeeds is answered
\* with the network's response, which is written to the cache only if its
\* status is 200.  A fetch that fails is answered with the cached response of
\* the request if there is one, else with the cached '/index.html' if the
\* request is a navigation, else with the 503 'Offline' response.  Every fetch
\* event is answered with a response.
C25_NetworkFirst ==
    [][/\ FetchStep =>
            LET a == answer'
            IN  /\ a.net.ok =>
                     /\ a.response = Fetched(a.net.status)
                     /\ puts' # puts => a.net.status = 200
                /\ ~a.net.ok =>
                     /\ puts' = puts
                     /\ a.response =
                          IF cache[a.url] # Missing THEN cache[a.url]
                          ELSE IF a.mode = "navigate" THEN cache["/index.html"]
                          ELSE Offline
                /\ a.response # Missing
       /\ ~FetchStep => puts' \subseteq puts
       /\ \A u \in Urls : cache'[u] # cache[u] => cache'[u].status = 200]_vars

====
